---- MODULE Spec2Model ----
(***************************************************************************)
(* Model of src/conf_mode/interfaces-pppoe.py: one reconciliation pass of  *)
(* a PPPoE interface (get_config, verify, generate, apply) against its     *)
(* external collaborators: the configuration store, the service            *)
(* supervisor (systemctl), the peer file /etc/ppp/peers/<intf>, the OS     *)
(* interface table and the interface alias setter.                         *)
(*                                                                         *)
(* Strings built with str.format are modelled as tuples of their pieces    *)
(* (<<"/etc/ppp/peers/", intf>>), a text as the sequence of its lines and  *)
(* a line as the tuple of its pieces.  The constant comment lines and the  *)
(* blank lines of the template carry no information and are left out of    *)
(* the rendered text.                                                      *)
(***************************************************************************)
EXTENDS Integers, Sequences, FiniteSets, TLC

VARIABLES
    env,        \* process environment: VYOS_TAGNODE_VALUE set or not, its value
    store,      \* configuration store content under interfaces pppoe <intf>
    svc,        \* state of the unit ppp@<intf>.service: "running" | "stopped"
    fs,         \* what is at the path /etc/ppp/peers/<intf>
    ifPresent,  \* whether <intf> is in the set netifaces.interfaces() returns
    alias,      \* the interface alias set by this pass, if any
    pc,         \* position of the process in __main__
    c,          \* the dictionary pppoe (the configuration snapshot)
    cnt,        \* the loop counter cnt of apply
    out,        \* what the process printed
    raised,     \* the exception that ended the process, "none" if none
    exitCode,   \* exit code of the process, -1 while it runs
    trace,      \* calls made to external collaborators, in order
    queries,    \* number of calls of interfaces() in apply
    sleeps,     \* number of calls of sleep(0.250) in apply
    seen,       \* some call of interfaces() returned a set containing <intf>
    svc0,       \* svc before the pass
    fs0         \* fs before the pass

vars == <<env, store, svc, fs, ifPresent, alias, pc, c, cnt, out, raised,
          exitCode, trace, queries, sleeps, seen, svc0, fs0>>

(***************************************************************************)
(* Program constants                                                       *)
(***************************************************************************)

\* sleep(0.250), in milliseconds
SleepMs == 250

\* if cnt == 50: break
MaxPoll == 50

\* Mutant of default_config_data: the default mtu is that of plain Ethernet
default_config_data_Mtu1500 ==
    [ access_concentrator |-> "",
      auth_username       |-> "",
      auth_password       |-> "",
      on_demand           |-> FALSE,
      default_route       |-> "auto",
      deleted             |-> FALSE,
      description         |-> "",
      disable             |-> FALSE,
      intf                |-> "",
      idle_timeout        |-> "",
      ipv6_autoconf       |-> FALSE,
      ipv6_enable         |-> FALSE,
      local_address       |-> "",
      mtu                 |-> "1500",
      name_server         |-> TRUE,
      remote_address      |-> "",
      service_name        |-> "",
      source_interface    |-> "" ]

default_config_data ==
    [ access_concentrator |-> "",
      auth_username       |-> "",
      auth_password       |-> "",
      on_demand           |-> FALSE,
      default_route       |-> "auto",
      deleted             |-> FALSE,
      description         |-> "",
      disable             |-> FALSE,
      intf                |-> "",
      idle_timeout        |-> "",
      ipv6_autoconf       |-> FALSE,
      ipv6_enable         |-> FALSE,
      local_address       |-> "",
      mtu                 |-> "1492",
      name_server         |-> TRUE,
      remote_address      |-> "",
      service_name        |-> "",
      source_interface    |-> "" ]

base_path == <<"interfaces", "pppoe">>

(***************************************************************************)
(* The configuration store (vyos.config.Config).  The store holds, for the *)
(* subtree interfaces pppoe <intf>: whether it exists (tree), the set of   *)
(* leaves that exist in it (has) and the value of each valued leaf (val).  *)
(***************************************************************************)

ValuedLeaves ==
    { <<"access-concentrator">>, <<"authentication", "user">>,
      <<"authentication", "password">>, <<"default-route">>,
      <<"description">>, <<"idle-timeout">>, <<"local-address">>,
      <<"source-interface">>, <<"mtu">>, <<"remote-address">>,
      <<"service-name">> }

FlagLeaves ==
    { <<"connect-on-demand">>, <<"disable">>,
      <<"ipv6", "address", "autoconf">>, <<"ipv6", "enable">>,
      <<"no-peer-dns">> }

Leaves == ValuedLeaves \cup FlagLeaves

\* conf.exists(base_path + [intf]): the lookup of the interface's subtree
ConfExistsTree(st, intf) == st.tree

\* conf.exists(path) once the level is set to the interface's subtree
ConfExists(st, path) == path \in st.has

\* conf.return_value(path)
ReturnValue(st, path) == st.val[path]

\* conf.return_values(path): the values of a multi-value leaf, as a list
ReturnValues(st, path) == << st.val[path] >>

\* os.environ['VYOS_TAGNODE_VALUE'] raises KeyError when the variable is unset
EnvHasTag(e) == e.set

(***************************************************************************)
(* get_config: the snapshot and what is printed while building it          *)
(***************************************************************************)

\* pppoe[field] = conf.return_value(path) if conf.exists(path)
Valued(st, path, dflt) ==
    IF ConfExists(st, path) THEN ReturnValue(st, path) ELSE dflt

\* pppoe[field] = True if conf.exists(path)
Flag(st, path, dflt) ==
    IF ConfExists(st, path) THEN TRUE ELSE dflt

\* Mutant of get_config_intf: a name is made up when the variable is unset
get_config_intf_Guess(e) ==
    IF EnvHasTag(e) THEN e.val ELSE "pppoe0"

get_config_intf(e) ==
    IF EnvHasTag(e) THEN e.val ELSE default_config_data.intf

get_config_out(e) ==
    IF EnvHasTag(e) THEN <<>> ELSE << "Interface not specified" >>

get_config(e, st) ==
    LET d    == default_config_data
        intf == get_config_intf(e)
    IN  IF ~ConfExistsTree(st, intf)
        THEN [d EXCEPT !.intf = intf, !.deleted = TRUE]
        ELSE [ access_concentrator |->
                   IF ConfExists(st, <<"access-concentrator">>)
                   THEN ReturnValues(st, <<"access-concentrator">>)
                   ELSE d.access_concentrator,
               auth_username  |-> Valued(st, <<"authentication", "user">>, d.auth_username),
               auth_password  |-> Valued(st, <<"authentication", "password">>, d.auth_password),
               on_demand      |-> Flag(st, <<"connect-on-demand">>, d.on_demand),
               default_route  |-> Valued(st, <<"default-route">>, d.default_route),
               deleted        |-> d.deleted,
               description    |-> Valued(st, <<"description">>, d.description),
               disable        |-> Flag(st, <<"disable">>, d.disable),
               intf           |-> intf,
               idle_timeout   |-> Valued(st, <<"idle-timeout">>, d.idle_timeout),
               ipv6_autoconf  |-> Flag(st, <<"ipv6", "address", "autoconf">>, d.ipv6_autoconf),
               ipv6_enable    |-> Flag(st, <<"ipv6", "enable">>, d.ipv6_enable),
               local_address  |-> Valued(st, <<"local-address">>, d.local_address),
               mtu            |-> Valued(st, <<"mtu">>, d.mtu),
               name_server    |-> IF ConfExists(st, <<"no-peer-dns">>) THEN FALSE
                                  ELSE d.name_server,
               remote_address |-> Valued(st, <<"remote-address">>, d.remote_address),
               service_name   |-> Valued(st, <<"service-name">>, d.service_name),
               source_interface |-> Valued(st, <<"source-interface">>, d.source_interface) ]

(***************************************************************************)
(* verify                                                                  *)
(***************************************************************************)

\* Python truth value of a string: the empty string is false
Truthy(str) == str # ""

\* Mutant of verify: the check of source_interface is missing
verify_NoSourceCheck(pppoe) == "ok"

\* Mutant of verify: source_interface is checked before deleted
verify_SourceFirst(pppoe) ==
    IF ~Truthy(pppoe.source_interface) THEN "ConfigError" ELSE "ok"

\* "ok", or "ConfigError" when verify raises
verify(pppoe) ==
    IF pppoe.deleted THEN "ok"
    ELSE IF ~Truthy(pppoe.source_interface) THEN "ConfigError"
    ELSE "ok"

ConfigErrorMessage == "PPPoE source interface is missing"

(***************************************************************************)
(* config_pppoe_tmpl: the rendered text                                    *)
(***************************************************************************)

\* The characters of the values a default-route leaf takes
Chars(str) ==
    CASE str = "auto"  -> <<"a", "u", "t", "o">>
      [] str = "force" -> <<"f", "o", "r", "c", "e">>
      [] str = "none"  -> <<"n", "o", "n", "e">>
      [] OTHER         -> <<>>

\* Python's  needle in hay  on strings: hay has needle as a substring
InStr(needle, hay) ==
    LET n == Chars(needle)
        h == Chars(hay)
    IN  \E i \in 0..(Len(h) - Len(n)) : SubSeq(h, i + 1, i + Len(n)) = n

\* Mutant of RouteLines: force emits replacedefaultroute alone
RouteLines_ForceReplaceOnly(pppoe) ==
    IF InStr("auto", pppoe.default_route) THEN << <<"defaultroute">> >>
    ELSE IF InStr("force", pppoe.default_route)
         THEN << <<"replacedefaultroute">> >>
    ELSE <<>>

RouteLines(pppoe) ==
    IF InStr("auto", pppoe.default_route) THEN << <<"defaultroute">> >>
    ELSE IF InStr("force", pppoe.default_route)
         THEN << <<"defaultroute">>, <<"replacedefaultroute">> >>
    ELSE <<>>

\* Mutant of Render: the mru line is not bound to the snapshot's mtu
Render_MruNotMtu(pppoe) ==
       << <<"### Autogenerated by interfaces-pppoe.py ###">> >>
    \o (IF Truthy(pppoe.description) THEN << <<"# ", pppoe.description>> >> ELSE <<>>)
    \o << <<"noipdefault">>, <<"hide-password">>,
          <<"lcp-echo-interval 20">>, <<"lcp-echo-failure 3">>,
          <<"noaccomp">>, <<"default-asyncmap">>, <<"connect /bin/true">>,
          <<"noauth">>, <<"noproxyarp">>, <<"plugin rp-pppoe.so">>,
          <<pppoe.source_interface>>,
          <<"persist">>,
          <<"ifname ", pppoe.intf>>,
          <<"ipparam ", pppoe.intf>>,
          <<"debug">>,
          <<"logfile /var/log/vyatta/ppp_", pppoe.intf, ".log">> >>
    \o RouteLines(pppoe)
    \o << <<"mtu ", pppoe.mtu>>,
          <<"mru ", "1492">>,
          <<"user \"", pppoe.auth_username, "\"">>,
          <<"password \"", pppoe.auth_password, "\"">> >>
    \o (IF pppoe.name_server THEN << <<"usepeerdns">> >> ELSE <<>>)
    \o (IF pppoe.ipv6_enable THEN << <<"+ipv6">> >> ELSE <<>>)

Render(pppoe) ==
       << <<"### Autogenerated by interfaces-pppoe.py ###">> >>
    \o (IF Truthy(pppoe.description) THEN << <<"# ", pppoe.description>> >> ELSE <<>>)
    \o << <<"noipdefault">>, <<"hide-password">>,
          <<"lcp-echo-interval 20">>, <<"lcp-echo-failure 3">>,
          <<"noaccomp">>, <<"default-asyncmap">>, <<"connect /bin/true">>,
          <<"noauth">>, <<"noproxyarp">>, <<"plugin rp-pppoe.so">>,
          <<pppoe.source_interface>>,
          <<"persist">>,
          <<"ifname ", pppoe.intf>>,
          <<"ipparam ", pppoe.intf>>,
          <<"debug">>,
          <<"logfile /var/log/vyatta/ppp_", pppoe.intf, ".log">> >>
    \o RouteLines(pppoe)
    \o << <<"mtu ", pppoe.mtu>>,
          <<"mru ", pppoe.mtu>>,
          <<"user \"", pppoe.auth_username, "\"">>,
          <<"password \"", pppoe.auth_password, "\"">> >>
    \o (IF pppoe.name_server THEN << <<"usepeerdns">> >> ELSE <<>>)
    \o (IF pppoe.ipv6_enable THEN << <<"+ipv6">> >> ELSE <<>>)

(***************************************************************************)
(* Names handed to the external collaborators                              *)
(***************************************************************************)

\* '/etc/ppp/peers/{}'.format(pppoe['intf'])
config_file_pppoe(pppoe) == <<"/etc/ppp/peers/", pppoe.intf>>

\* 'systemctl stop ppp@{}.service'.format(pppoe['intf'])
StopCmd(pppoe) == <<"systemctl stop ppp@", pppoe.intf, ".service">>

\* 'systemctl start ppp@{}.service'.format(pppoe['intf'])
StartCmd(pppoe) == <<"systemctl start ppp@", pppoe.intf, ".service">>

\* One call to an external collaborator: what, with which argument, how it ended
Ev(op, arg, res) == [op |-> op, arg |-> arg, res |-> res]

\* A path with an empty last component names a directory, never a file
NamesDirectory(path) == path[Len(path)] = ""

(***************************************************************************)
(* External collaborators                                                  *)
(***************************************************************************)

\* subprocess_cmd waits for the command and drops its return code: the
\* command may have done its work or failed, the caller sees no difference
subprocess_cmd == {"ok", "fail"}

\* The unit's state after  systemctl stop  ended with res
SvcAfterStop(s, res) == IF res = "ok" THEN "stopped" ELSE s

\* The unit's state after  systemctl start  ended with res
SvcAfterStart(s, res) == IF res = "ok" THEN "running" ELSE s

\* os.path.exists(config_file_pppoe)
PathExists(f) == f.kind # "absent"

\* Interface(intf).set_alias(description): fails when the interface is not
\* there, and may fail when it is
AliasOutcomes(present) == IF present THEN {"ok", "fail"} ELSE {"fail"}

NoAlias == [set |-> FALSE, val |-> ""]

Absent == [kind |-> "absent", text |-> <<>>]

\* The proper prefixes of a text: what a write that fails half way leaves
ProperPrefixes(text) == { SubSeq(text, 1, n) : n \in 0..(Len(text) - 1) }

(***************************************************************************)
(* Inputs of a pass                                                        *)
(***************************************************************************)

Envs == { [set |-> FALSE, val |-> ""], [set |-> TRUE, val |-> "pppoe0"] }

Routes == {"auto", "force", "none"}

SampleVal(route) ==
    [ p \in ValuedLeaves |->
        CASE p = <<"access-concentrator">>        -> "acme"
          [] p = <<"authentication", "user">>     -> "alice"
          [] p = <<"authentication", "password">> -> "secret"
          [] p = <<"default-route">>              -> route
          [] p = <<"description">>                -> "WAN"
          [] p = <<"idle-timeout">>               -> "300"
          [] p = <<"local-address">>              -> "192.0.2.1"
          [] p = <<"source-interface">>           -> "eth0"
          [] p = <<"mtu">>                        -> "1400"
          [] p = <<"remote-address">>             -> "192.0.2.2"
          [] p = <<"service-name">>               -> "isp" ]

\* The leaves that decide the control flow of a pass vary freely; the other
\* leaves are all there or all missing
ControlLeaves == { <<"disable">>, <<"source-interface">>, <<"description">> }

StoreHasSets ==
    { A \cup B : A \in SUBSET ControlLeaves,
                 B \in { {}, Leaves \ ControlLeaves } }

Stores ==
    { [tree |-> FALSE, has |-> {}, val |-> SampleVal("auto")] }
    \cup
    { [tree |-> TRUE, has |-> h, val |-> SampleVal(r)] :
        h \in StoreHasSets, r \in Routes }

OldText == << <<"### stale peer file ###">>, <<"mtu ", "1000">> >>

\* What can be at config_file_pppoe before the pass
InitialFs(e) ==
    IF NamesDirectory(<<"/etc/ppp/peers/", get_config_intf(e)>>)
    THEN { Absent, [kind |-> "dir", text |-> <<>>] }
    ELSE { Absent, [kind |-> "file", text |-> OldText] }

(***************************************************************************)
(* The pass                                                                *)
(***************************************************************************)

Init ==
    /\ env \in Envs
    /\ store \in Stores
    /\ svc \in {"running", "stopped"}
    /\ fs \in InitialFs(env)
    /\ ifPresent \in BOOLEAN
    /\ alias = NoAlias
    /\ pc = "get_config"
    /\ c = default_config_data
    /\ cnt = 0
    /\ out = <<>>
    /\ raised = "none"
    /\ exitCode = -1
    /\ trace = <<>>
    /\ queries = 0
    /\ sleeps = 0
    /\ seen = FALSE
    /\ svc0 = svc
    /\ fs0 = fs

\* c = get_config()
GetConfig ==
    /\ pc = "get_config"
    /\ c' = get_config(env, store)
    /\ out' = out \o get_config_out(env)
    /\ pc' = "verify"
    /\ UNCHANGED <<env, store, svc, fs, ifPresent, alias, cnt, raised,
                   exitCode, trace, queries, sleeps, seen, svc0, fs0>>

\* verify(c) returns
VerifyOk ==
    /\ pc = "verify"
    /\ verify(c) = "ok"
    /\ pc' = "gen_stop"
    /\ UNCHANGED <<env, store, svc, fs, ifPresent, alias, c, cnt, out, raised,
                   exitCode, trace, queries, sleeps, seen, svc0, fs0>>

\* Mutant of VerifyFail: the unit is stopped before the snapshot is verified
VerifyFail_AfterStop ==
    /\ pc = "verify"
    /\ verify(c) = "ConfigError"
    /\ \E res \in subprocess_cmd :
          /\ svc' = (IF res = "ok" THEN "stopped" ELSE svc)
          /\ trace' = Append(trace, [op |-> "stop",
                                    arg |-> <<"systemctl stop ppp@", c.intf, ".service">>,
                                    res |-> res])
    /\ out' = Append(out, ConfigErrorMessage)
    /\ raised' = "ConfigError"
    /\ exitCode' = 1
    /\ pc' = "exit"
    /\ UNCHANGED <<env, store, fs, ifPresent, alias, c, cnt,
                   queries, sleeps, seen, svc0, fs0>>

\* verify(c) raises ConfigError: except ConfigError as e: print(e); exit(1)
VerifyFail ==
    /\ pc = "verify"
    /\ verify(c) = "ConfigError"
    /\ out' = Append(out, ConfigErrorMessage)
    /\ raised' = "ConfigError"
    /\ exitCode' = 1
    /\ pc' = "exit"
    /\ UNCHANGED <<env, store, svc, fs, ifPresent, alias, c, cnt, trace,
                   queries, sleeps, seen, svc0, fs0>>

\* Mutant of GenerateStop: systemctl stop is called only for a running unit
GenerateStop_OnlyIfRunning ==
    /\ pc = "gen_stop"
    /\ IF svc = "running"
       THEN \E res \in subprocess_cmd :
              /\ svc' = SvcAfterStop(svc, res)
              /\ trace' = Append(trace, Ev("stop", StopCmd(c), res))
       ELSE UNCHANGED <<svc, trace>>
    /\ pc' = "gen_artifact"
    /\ UNCHANGED <<env, store, fs, ifPresent, alias, c, cnt, out, raised,
                   exitCode, queries, sleeps, seen, svc0, fs0>>

\* Mutant of GenerateStop: generate goes on to the peer file without
\* calling systemctl stop
GenerateStop_NotCalled ==
    /\ pc = "gen_stop"
    /\ pc' = "gen_artifact"
    /\ UNCHANGED <<env, store, svc, fs, ifPresent, alias, c, cnt, out, raised,
                   exitCode, trace, queries, sleeps, seen, svc0, fs0>>

\* generate: subprocess_cmd('systemctl stop ppp@<intf>.service')
GenerateStop ==
    /\ pc = "gen_stop"
    /\ \E res \in subprocess_cmd :
          /\ svc' = SvcAfterStop(svc, res)
          /\ trace' = Append(trace, Ev("stop", StopCmd(c), res))
    /\ pc' = "gen_artifact"
    /\ UNCHANGED <<env, store, fs, ifPresent, alias, c, cnt, out, raised,
                   exitCode, queries, sleeps, seen, svc0, fs0>>

\* An exception nothing catches ends the process with a traceback and code 1
Uncaught(exc) ==
    /\ raised' = exc
    /\ exitCode' = 1
    /\ pc' = "exit"

\* Mutant of GenerateDelete: os.unlink is called without the test of
\* os.path.exists, and raises when nothing is at the path
GenerateDelete_Unguarded ==
    /\ pc = "gen_artifact"
    /\ c.deleted
    /\ \/ /\ fs.kind = "file"
          /\ fs' = Absent
          /\ trace' = Append(trace, Ev("unlink", config_file_pppoe(c), "ok"))
          /\ pc' = "apply"
          /\ UNCHANGED <<raised, exitCode>>
       \/ /\ trace' = Append(trace, Ev("unlink", config_file_pppoe(c), "fail"))
          /\ Uncaught("OSError")
          /\ UNCHANGED fs
    /\ UNCHANGED <<env, store, svc, ifPresent, alias, c, cnt, out,
                   queries, sleeps, seen, svc0, fs0>>

\* Mutant of GenerateDelete: os.unlink sits in try/except, a failure to
\* remove the file is dropped
GenerateDelete_SwallowsError ==
    /\ pc = "gen_artifact"
    /\ c.deleted
    /\ \/ /\ ~PathExists(fs)
          /\ UNCHANGED <<fs, trace>>
       \/ /\ fs.kind = "file"
          /\ fs' = Absent
          /\ trace' = Append(trace, Ev("unlink", config_file_pppoe(c), "ok"))
       \/ /\ PathExists(fs)
          /\ trace' = Append(trace, Ev("unlink", config_file_pppoe(c), "fail"))
          /\ UNCHANGED fs
    /\ pc' = "apply"
    /\ UNCHANGED <<env, store, svc, ifPresent, alias, c, cnt, out, raised,
                   exitCode, queries, sleeps, seen, svc0, fs0>>

\* generate, deleted: if os.path.exists(path): os.unlink(path)
GenerateDelete ==
    /\ pc = "gen_artifact"
    /\ c.deleted
    /\ \/ /\ ~PathExists(fs)
          /\ pc' = "apply"
          /\ UNCHANGED <<fs, trace, raised, exitCode>>
       \/ /\ fs.kind = "file"
          /\ fs' = Absent
          /\ trace' = Append(trace, Ev("unlink", config_file_pppoe(c), "ok"))
          /\ pc' = "apply"
          /\ UNCHANGED <<raised, exitCode>>
       \/ /\ PathExists(fs)
          /\ trace' = Append(trace, Ev("unlink", config_file_pppoe(c), "fail"))
          /\ Uncaught("OSError")
          /\ UNCHANGED fs
    /\ UNCHANGED <<env, store, svc, ifPresent, alias, c, cnt, out,
                   queries, sleeps, seen, svc0, fs0>>

\* Mutant of GenerateWrite: the file is opened with mode 'a', so the text is
\* added after what the file held
GenerateWrite_Append ==
    /\ pc = "gen_artifact"
    /\ ~c.deleted
    /\ LET path     == config_file_pppoe(c)
           text     == Render(c)
           rendered == Append(trace, Ev("render", <<>>, "ok"))
           canOpen  == ~NamesDirectory(path) /\ fs.kind # "dir"
       IN  \/ /\ canOpen
              /\ fs' = [kind |-> "file", text |-> fs.text \o text]
              /\ trace' = Append(rendered, Ev("write", path, "ok"))
              /\ pc' = "apply"
              /\ UNCHANGED <<raised, exitCode>>
           \/ /\ trace' = Append(rendered, Ev("write", path, "open_fail"))
              /\ Uncaught("OSError")
              /\ UNCHANGED fs
    /\ UNCHANGED <<env, store, svc, ifPresent, alias, c, cnt, out,
                   queries, sleeps, seen, svc0, fs0>>

\* generate, not deleted: render the template, open(path, 'w'), f.write(text)
GenerateWrite ==
    /\ pc = "gen_artifact"
    /\ ~c.deleted
    /\ LET path     == config_file_pppoe(c)
           text     == Render(c)
           rendered == Append(trace, Ev("render", <<>>, "ok"))
           canOpen  == ~NamesDirectory(path) /\ fs.kind # "dir"
       IN  \/ /\ canOpen
              /\ fs' = [kind |-> "file", text |-> text]
              /\ trace' = Append(rendered, Ev("write", path, "ok"))
              /\ pc' = "apply"
              /\ UNCHANGED <<raised, exitCode>>
           \/ /\ trace' = Append(rendered, Ev("write", path, "open_fail"))
              /\ Uncaught("OSError")
              /\ UNCHANGED fs
           \/ /\ canOpen
              /\ \E part \in ProperPrefixes(text) :
                    fs' = [kind |-> "file", text |-> part]
              /\ trace' = Append(rendered, Ev("write", path, "write_fail"))
              /\ Uncaught("OSError")
    /\ UNCHANGED <<env, store, svc, ifPresent, alias, c, cnt, out,
                   queries, sleeps, seen, svc0, fs0>>

\* apply, deleted: bail out early; the process ends
ApplyDeleted ==
    /\ pc = "apply"
    /\ c.deleted
    /\ exitCode' = 0
    /\ pc' = "exit"
    /\ UNCHANGED <<env, store, svc, fs, ifPresent, alias, c, cnt, out, raised,
                   trace, queries, sleeps, seen, svc0, fs0>>

\* Mutant of ApplyStart: the test of pppoe['disable'] is missing
ApplyStart_IgnoresDisable ==
    /\ pc = "apply"
    /\ ~c.deleted
    /\ \E res \in subprocess_cmd :
          /\ svc' = SvcAfterStart(svc, res)
          /\ trace' = Append(trace, Ev("start", StartCmd(c), res))
    /\ cnt' = 0
    /\ pc' = "poll"
    /\ UNCHANGED <<env, store, fs, ifPresent, alias, c, out, raised,
                   exitCode, queries, sleeps, seen, svc0, fs0>>

\* Mutant of ApplyStart: the command's return code is checked, and a failed
\* start raises
ApplyStart_RaisesOnFailure ==
    /\ pc = "apply"
    /\ ~c.deleted
    /\ ~c.disable
    /\ \E res \in subprocess_cmd :
          /\ svc' = SvcAfterStart(svc, res)
          /\ trace' = Append(trace, Ev("start", StartCmd(c), res))
          /\ IF res = "ok"
             THEN pc' = "poll" /\ UNCHANGED <<raised, exitCode>>
             ELSE Uncaught("CalledProcessError")
    /\ cnt' = 0
    /\ UNCHANGED <<env, store, fs, ifPresent, alias, c, out,
                   queries, sleeps, seen, svc0, fs0>>

\* apply, not disabled: subprocess_cmd('systemctl start ...'); cnt = 0
ApplyStart ==
    /\ pc = "apply"
    /\ ~c.deleted
    /\ ~c.disable
    /\ \E res \in subprocess_cmd :
          /\ svc' = SvcAfterStart(svc, res)
          /\ trace' = Append(trace, Ev("start", StartCmd(c), res))
    /\ cnt' = 0
    /\ pc' = "poll"
    /\ UNCHANGED <<env, store, fs, ifPresent, alias, c, out, raised,
                   exitCode, queries, sleeps, seen, svc0, fs0>>

\* Mutant of ApplyDisabled: a disabled interface makes apply return early
ApplyDisabled_ReturnsEarly ==
    /\ pc = "apply"
    /\ ~c.deleted
    /\ c.disable
    /\ exitCode' = 0
    /\ pc' = "exit"
    /\ UNCHANGED <<env, store, svc, fs, ifPresent, alias, c, cnt, out, raised,
                   trace, queries, sleeps, seen, svc0, fs0>>

\* apply, disabled: no start; cnt = 0
ApplyDisabled ==
    /\ pc = "apply"
    /\ ~c.deleted
    /\ c.disable
    /\ cnt' = 0
    /\ pc' = "poll"
    /\ UNCHANGED <<env, store, svc, fs, ifPresent, alias, c, out, raised,
                   exitCode, trace, queries, sleeps, seen, svc0, fs0>>

\* Mutant of PollQuery: the loop breaks one attempt early
PollQuery_BreakEarly ==
    /\ pc = "poll"
    /\ queries' = queries + 1
    /\ \/ /\ ifPresent
          /\ seen' = TRUE
          /\ pc' = "alias"
          /\ UNCHANGED <<cnt, raised, exitCode, trace>>
       \/ /\ ~ifPresent
          /\ cnt' = cnt + 1
          /\ pc' = IF cnt' = MaxPoll - 1 THEN "alias" ELSE "sleep"
          /\ UNCHANGED <<seen, raised, exitCode, trace>>
    /\ UNCHANGED <<env, store, svc, fs, ifPresent, alias, c, out,
                   sleeps, svc0, fs0>>

\* Mutant of PollQuery: cnt is compared with 50 before it is incremented
PollQuery_BreakBeforeIncrement ==
    /\ pc = "poll"
    /\ queries' = queries + 1
    /\ \/ /\ ifPresent
          /\ seen' = TRUE
          /\ pc' = "alias"
          /\ UNCHANGED cnt
       \/ /\ ~ifPresent
          /\ pc' = IF cnt = MaxPoll THEN "alias" ELSE "sleep"
          /\ cnt' = IF cnt = MaxPoll THEN cnt ELSE cnt + 1
          /\ UNCHANGED seen
    /\ UNCHANGED <<env, store, svc, fs, ifPresent, alias, c, out, raised,
                   exitCode, trace, sleeps, svc0, fs0>>

\* while pppoe['intf'] not in interfaces(): cnt += 1; if cnt == 50: break
\* interfaces() returns the set of names, or raises and nothing catches it
PollQuery ==
    /\ pc = "poll"
    /\ queries' = queries + 1
    /\ \/ /\ ifPresent
          /\ seen' = TRUE
          /\ pc' = "alias"
          /\ UNCHANGED <<cnt, raised, exitCode, trace>>
       \/ /\ ~ifPresent
          /\ cnt' = cnt + 1
          /\ pc' = IF cnt' = MaxPoll THEN "alias" ELSE "sleep"
          /\ UNCHANGED <<seen, raised, exitCode, trace>>
       \/ /\ trace' = Append(trace, Ev("interfaces", <<>>, "fail"))
          /\ Uncaught("OSError")
          /\ UNCHANGED <<cnt, seen>>
    /\ UNCHANGED <<env, store, svc, fs, ifPresent, alias, c, out,
                   sleeps, svc0, fs0>>

\* sleep(0.250)
PollSleep ==
    /\ pc = "sleep"
    /\ sleeps' = sleeps + 1
    /\ pc' = "poll"
    /\ UNCHANGED <<env, store, svc, fs, ifPresent, alias, c, cnt, out, raised,
                   exitCode, trace, queries, seen, svc0, fs0>>

\* Mutant of SetAlias: the interface's name is passed as the alias
SetAlias_AliasIsName ==
    /\ pc = "alias"
    /\ \E res \in AliasOutcomes(ifPresent) :
          /\ alias' = IF res = "ok" THEN [set |-> TRUE, val |-> c.intf]
                      ELSE alias
          /\ trace' = Append(trace, Ev("set_alias", <<c.intf, c.intf>>, res))
    /\ exitCode' = 0
    /\ pc' = "exit"
    /\ UNCHANGED <<env, store, svc, fs, ifPresent, c, cnt, out, raised,
                   queries, sleeps, seen, svc0, fs0>>

\* Mutant of SetAlias: the alias is set only when the loop saw the interface
SetAlias_OnlyWhenSeen ==
    /\ pc = "alias"
    /\ IF seen
       THEN \E res \in AliasOutcomes(ifPresent) :
              /\ alias' = IF res = "ok" THEN [set |-> TRUE, val |-> c.description]
                          ELSE alias
              /\ trace' = Append(trace, Ev("set_alias", <<c.intf, c.description>>, res))
       ELSE UNCHANGED <<alias, trace>>
    /\ exitCode' = 0
    /\ pc' = "exit"
    /\ UNCHANGED <<env, store, svc, fs, ifPresent, c, cnt, out, raised,
                   queries, sleeps, seen, svc0, fs0>>

\* try: Interface(intf).set_alias(description) except: pass; the process ends
SetAlias ==
    /\ pc = "alias"
    /\ \E res \in AliasOutcomes(ifPresent) :
          /\ alias' = IF res = "ok" THEN [set |-> TRUE, val |-> c.description]
                      ELSE alias
          /\ trace' = Append(trace, Ev("set_alias", <<c.intf, c.description>>, res))
    /\ exitCode' = 0
    /\ pc' = "exit"
    /\ UNCHANGED <<env, store, svc, fs, ifPresent, c, cnt, out, raised,
                   queries, sleeps, seen, svc0, fs0>>

\* The kernel's interface table changes under the process: the daemon
\* creates the interface some time after its start, and it may go away
KernelIfChange ==
    /\ pc # "exit"
    /\ ifPresent' = ~ifPresent
    /\ UNCHANGED <<env, store, svc, fs, alias, pc, c, cnt, out, raised,
                   exitCode, trace, queries, sleeps, seen, svc0, fs0>>

Next ==
    \/ GetConfig
    \/ VerifyOk
    \/ VerifyFail
    \/ GenerateStop
    \/ GenerateDelete
    \/ GenerateWrite
    \/ ApplyDeleted
    \/ ApplyStart
    \/ ApplyDisabled
    \/ PollQuery
    \/ PollSleep
    \/ SetAlias
    \/ KernelIfChange

Spec == Init /\ [][Next]_vars

(***************************************************************************)
(* get_config, verify and generate over a wider set of stores: every leaf  *)
(* is there or missing on its own, not only the leaves that decide the     *)
(* control flow.                                                           *)
(***************************************************************************)

\* The sets of leaves taken are those that differ from the empty subtree or
\* from the full subtree in at most this many leaves
MaxDeviation == 2

WideHasSets ==
    { h \in SUBSET Leaves :
        \/ Cardinality(h) <= MaxDeviation
        \/ Cardinality(Leaves \ h) <= MaxDeviation }

WideStores ==
    { [tree |-> FALSE, has |-> {}, val |-> SampleVal("auto")] }
    \cup
    { [tree |-> TRUE, has |-> h, val |-> SampleVal("auto")] : h \in WideHasSets }
    \cup
    { [tree |-> TRUE, has |-> h, val |-> SampleVal(r)] :
        h \in { g \in WideHasSets : <<"default-route">> \in g },
        r \in Routes }

InitWide ==
    /\ env \in Envs
    /\ store \in WideStores
    /\ svc = "stopped"
    /\ fs \in InitialFs(env)
    /\ ifPresent = FALSE
    /\ alias = NoAlias
    /\ pc = "get_config"
    /\ c = default_config_data
    /\ cnt = 0
    /\ out = <<>>
    /\ raised = "none"
    /\ exitCode = -1
    /\ trace = <<>>
    /\ queries = 0
    /\ sleeps = 0
    /\ seen = FALSE
    /\ svc0 = svc
    /\ fs0 = fs

\* c = get_config(); verify(c); generate(c)
NextGenerate ==
    \/ GetConfig
    \/ VerifyOk
    \/ VerifyFail
    \/ GenerateStop
    \/ GenerateDelete
    \/ GenerateWrite

SpecGenerate == InitWide /\ [][NextGenerate]_vars

(***************************************************************************)
(* Properties                                                              *)
(***************************************************************************)

\* The positions of the calls of op in the trace
At(op) == { i \in DOMAIN trace : trace[i].op = op }

Count(op) == Cardinality(At(op))

\* The operations called, in order, without their arguments and results
Ops == [ i \in DOMAIN trace |-> trace[i].op ]

\* The positions at which the peer file is written or unlinked
Mutations == At("write") \cup At("unlink")

\* verify has returned or raised
Verified == pc \notin {"get_config", "verify"}

\* The pass is past the step of generate that unlinks or writes the file
PastArtifact == pc \in {"apply", "poll", "sleep", "alias"}
                \/ (pc = "exit" /\ raised # "ConfigError")

\* The pass ran to the end of apply
Completed == pc = "exit" /\ raised = "none"

\* C1: in every pass, stop has been called (and has returned) before the
\* peer file is written or unlinked; start is called only after the write
\* has completed, and never before or during it.
C1_StopMutateStart ==
    /\ \A i \in Mutations :
          /\ \E k \in At("stop") : k < i
          /\ \A j \in At("start") : i < j
    /\ \A j \in At("start") :
          \E i \in At("write") : i < j /\ trace[i].res = "ok"
    /\ (pc = "gen_artifact" => Count("stop") = 1 /\ Count("start") = 0)

C1_Witness ==
    /\ pc = "poll"
    /\ Ops = <<"stop", "render", "write", "start">>

\* C2: whenever the peer file is rewritten or removed, the unit
\* ppp@<intf>.service is not running.
C2_NotRunningWhileMutating ==
    [][ fs' # fs => svc # "running" ]_vars

\* C3: start is called at most once in a pass, and only for a snapshot
\* that is neither deleted nor disabled.
C3_StartOnlyEnabled ==
    /\ Count("start") <= 1
    /\ (Count("start") > 0 => ~c.deleted /\ ~c.disable)
    /\ (Verified /\ (c.deleted \/ c.disable) => Count("start") = 0)

C3_Witness ==
    /\ pc = "exit"
    /\ Count("start") = 1
    /\ ~c.disable

\* C4 as stated: past the artifact step exactly one of unlink and write has
\* been called, unlink when deleted and write otherwise, whether or not the
\* file existed before.
C4_Original ==
    PastArtifact =>
        /\ Count("unlink") + Count("write") = 1
        /\ (c.deleted <=> Count("unlink") = 1)

\* C4 as amended: past the artifact step, write has been called exactly once
\* and unlink never when the snapshot is not deleted; when it is deleted,
\* write is never called and unlink is called once if the file existed
\* before the pass and not at all if it did not.
C4_WriteOrGuardedUnlink ==
    PastArtifact =>
        /\ Count("write") = (IF c.deleted THEN 0 ELSE 1)
        /\ Count("unlink") = (IF c.deleted /\ PathExists(fs0) THEN 1 ELSE 0)
        /\ Count("unlink") + Count("write") <= 1

C4_Witness ==
    /\ pc = "exit"
    /\ c.deleted
    /\ ~PathExists(fs0)
    /\ Ops = << "stop" >>

\* C5: a snapshot that is not deleted and has an empty source_interface
\* fails verify with ConfigError, the message is printed and the process
\* exits with code 1 before any side effect; a snapshot that is not deleted
\* and has a source_interface passes verify.
C5_MissingSourceExits1 ==
    Verified =>
        /\ (~c.deleted /\ c.source_interface = "" =>
                /\ pc = "exit"
                /\ raised = "ConfigError"
                /\ exitCode = 1
                /\ out # <<>> /\ out[Len(out)] = ConfigErrorMessage)
        /\ (~c.deleted /\ c.source_interface # "" =>
                /\ raised # "ConfigError"
                /\ (pc # "gen_stop" => Count("stop") = 1))

C5_Witness ==
    /\ pc = "exit"
    /\ ~c.deleted
    /\ c.source_interface = ""
    /\ exitCode = 1

\* C6: a deleted snapshot passes verify even with an empty
\* source_interface, the template is never rendered, no text is written and
\* start is never called.
C6_DeletedNoRenderNoStart ==
    Verified /\ c.deleted =>
        /\ raised # "ConfigError"
        /\ (pc # "gen_stop" => Count("stop") = 1)
        /\ Count("render") = 0
        /\ Count("write") = 0
        /\ Count("start") = 0
        /\ (fs.kind = "file" => fs = fs0)

C6_Witness ==
    /\ pc = "exit"
    /\ c.deleted
    /\ c.source_interface = ""
    /\ Ops = << "stop", "unlink" >>
    /\ exitCode = 0

\* C7: when no call of interfaces() returns a set containing the interface,
\* the loop ends after exactly 50 calls, nothing is raised and the process
\* exits with code 0.
C7_PollEndsAfterMaxPoll ==
    /\ (pc = "alias" /\ ~seen => queries = MaxPoll /\ cnt = MaxPoll)
    /\ (pc = "exit" /\ queries > 0 /\ ~seen /\ Count("interfaces") = 0 =>
            /\ queries = MaxPoll
            /\ raised = "none"
            /\ exitCode = 0)
    /\ queries <= MaxPoll

C7_Witness ==
    /\ pc = "exit"
    /\ ~seen
    /\ queries = MaxPoll
    /\ exitCode = 0

\* C8 as stated: set_alias is called only after a call of interfaces()
\* returned a set containing the interface; when the 50 attempts are used up
\* set_alias is never called and no alias is set.
C8_Original ==
    /\ (Count("set_alias") > 0 => seen)
    /\ (alias.set => seen)

\* C8 as amended: set_alias is attempted exactly once in every pass that
\* polls, once the loop has ended, whether the loop ended because the
\* interface was seen or because the 50 attempts were used up; it is never
\* attempted while the loop runs.
C8_AliasAttemptedAfterLoop ==
    /\ (Count("set_alias") > 0 => pc = "exit" /\ (seen \/ queries = MaxPoll))
    /\ (Completed /\ ~c.deleted => Count("set_alias") = 1)
    /\ (alias.set => \E i \in At("set_alias") : trace[i].res = "ok")

C8_Witness ==
    /\ pc = "exit"
    /\ ~seen
    /\ queries = MaxPoll
    /\ alias.set

\* C9: after a completed pass the peer file holds exactly the text rendered
\* from the snapshot when the snapshot is not deleted, whatever was there
\* before, and nothing is at the path when the snapshot is deleted.
C9_FileIsRenderedOrGone ==
    /\ (Completed /\ ~c.deleted => fs = [kind |-> "file", text |-> Render(c)])
    /\ (Completed /\ c.deleted => fs = Absent)

C9_Witness ==
    /\ Completed
    /\ ~c.deleted
    /\ fs0.kind = "file"
    /\ fs0.text # Render(c)

\* The operations a pass calls when nothing raises
ExpectedOps ==
    IF c.deleted
    THEN <<"stop">> \o (IF PathExists(fs0) THEN <<"unlink">> ELSE <<>>)
    ELSE <<"stop", "render", "write">>
         \o (IF c.disable THEN <<>> ELSE <<"start">>)
         \o <<"set_alias">>

\* Some call to the supervisor or to the alias setter failed
SwallowedFailure ==
    \E i \in DOMAIN trace :
        trace[i].op \in {"stop", "start", "set_alias"} /\ trace[i].res = "fail"

\* The write or the unlink of the peer file failed
FileFailure ==
    \E i \in Mutations : trace[i].res # "ok"

\* A call of interfaces() raised
ListerFailure == Count("interfaces") > 0

\* C10: a failure of stop, of start or of set_alias changes nothing in the
\* rest of the pass: the same operations are called in the same order, the
\* peer file ends as it would have, and the process exits with code 0.
C10_SupervisorFailuresSwallowed ==
    /\ (pc = "exit" /\ raised # "ConfigError" /\ ~FileFailure /\ ~ListerFailure =>
            /\ Ops = ExpectedOps
            /\ raised = "none"
            /\ exitCode = 0)
    /\ (SwallowedFailure => raised \in {"none", "OSError"})
    /\ (SwallowedFailure /\ raised = "OSError" => FileFailure \/ ListerFailure)

C10_Witness ==
    /\ pc = "exit"
    /\ exitCode = 0
    /\ \E i \in At("stop") : trace[i].res = "fail"
    /\ \E i \in At("start") : trace[i].res = "fail"
    /\ \E i \in At("set_alias") : trace[i].res = "fail"
    /\ fs = [kind |-> "file", text |-> Render(c)]

\* C11 as stated: the process exits with a code other than 0 only when
\* verify failed; a failure of stop, start, the write or unlink of the peer
\* file, interfaces() or set_alias leaves the exit code 0.
C11_Original ==
    pc = "exit" /\ exitCode # 0 => raised = "ConfigError"

\* C11 as amended: the process exits with code 1 when verify fails (with the
\* message printed) and also when the write or the unlink of the peer file
\* or a call of interfaces() raises, which nothing catches; it exits with
\* code 0 in every other case, whatever stop, start and set_alias did.
C11_ExitCodes ==
    pc = "exit" =>
        /\ exitCode \in {0, 1}
        /\ raised \in {"none", "ConfigError", "OSError"}
        /\ (exitCode = 1 <=> raised # "none")
        /\ (raised = "ConfigError" <=> ~c.deleted /\ c.source_interface = "")
        /\ (raised = "ConfigError" =>
                out # <<>> /\ out[Len(out)] = ConfigErrorMessage)
        /\ (raised = "OSError" <=> FileFailure \/ ListerFailure)

C11_Witness ==
    /\ pc = "exit"
    /\ exitCode = 1
    /\ raised = "OSError"
    /\ \E i \in At("write") : trace[i].res = "write_fail"
    /\ \E i \in At("stop") : trace[i].res = "ok"

\* The write of the peer file went through: fs holds the whole rendered text
Written == \E i \in At("write") : trace[i].res = "ok"

\* The peer file has this line
TextHas(line) == \E i \in DOMAIN fs.text : fs.text[i] = line

\* The lines of the peer file that start with this piece
LinesWith(head) == { fs.text[i] : i \in { j \in DOMAIN fs.text : fs.text[j][1] = head } }

\* A text has this line
HasLine(text, line) == \E i \in DOMAIN text : text[i] = line

\* C12: the text written for a snapshot has defaultroute and not
\* replacedefaultroute when default_route is auto, both when it is force and
\* neither when it is none; replacedefaultroute never comes without
\* defaultroute.  The same holds of the text rendered from any snapshot that
\* is not deleted.
C12_RouteDirectives ==
    /\ (Written =>
            /\ c.default_route \in Routes
            /\ (TextHas(<<"defaultroute">>) <=> c.default_route \in {"auto", "force"})
            /\ (TextHas(<<"replacedefaultroute">>) <=> c.default_route = "force")
            /\ (TextHas(<<"replacedefaultroute">>) => TextHas(<<"defaultroute">>)))
    /\ (pc # "get_config" /\ ~c.deleted =>
            /\ (HasLine(Render(c), <<"defaultroute">>)
                    <=> c.default_route \in {"auto", "force"})
            /\ (HasLine(Render(c), <<"replacedefaultroute">>)
                    <=> c.default_route = "force"))

C12_Witness ==
    /\ Written
    /\ c.default_route = "force"
    /\ TextHas(<<"defaultroute">>)
    /\ TextHas(<<"replacedefaultroute">>)

\* C13: in the text written for a valid snapshot the mtu line and the mru
\* line both carry the snapshot's mtu, usepeerdns is there iff name_server,
\* +ipv6 is there iff ipv6_enable, the description comment is there iff the
\* description is not empty, and ifname and ipparam both carry intf.
C13_ConditionalLines ==
    Written =>
        /\ LinesWith("mtu ") = { <<"mtu ", c.mtu>> }
        /\ LinesWith("mru ") = { <<"mru ", c.mtu>> }
        /\ (TextHas(<<"usepeerdns">>) <=> c.name_server)
        /\ (TextHas(<<"+ipv6">>) <=> c.ipv6_enable)
        /\ LinesWith("# ") = (IF c.description # "" THEN { <<"# ", c.description>> }
                              ELSE {})
        /\ LinesWith("ifname ") = { <<"ifname ", c.intf>> }
        /\ LinesWith("ipparam ") = { <<"ipparam ", c.intf>> }
        /\ TextHas(<<c.source_interface>>)

C13_Witness ==
    /\ Written
    /\ c.mtu = "1400"
    /\ ~c.name_server
    /\ c.ipv6_enable
    /\ c.description = ""
    /\ ~TextHas(<<"usepeerdns">>)
    /\ TextHas(<<"+ipv6">>)

\* What get_config is to put in a field read with return_value
Expected(path, dflt) == IF path \in store.has THEN store.val[path] ELSE dflt

\* C14: get_config raises nothing; without the subtree the snapshot is
\* deleted and every configuration field has its default; with the subtree
\* the snapshot is not deleted and every field has the store's value for
\* its leaf, or the documented default when the leaf is missing.
C14_ExtractDefaults ==
    pc # "get_config" =>
        /\ (pc = "verify" => raised = "none" /\ exitCode = -1)
        /\ c.intf = (IF env.set THEN env.val ELSE "")
        /\ c.deleted = ~store.tree
        /\ LET E(path, dflt) == IF store.tree THEN Expected(path, dflt) ELSE dflt
               F(path)       == store.tree /\ path \in store.has
           IN  /\ c.auth_username = E(<<"authentication", "user">>, "")
               /\ c.auth_password = E(<<"authentication", "password">>, "")
               /\ c.default_route = E(<<"default-route">>, "auto")
               /\ c.description = E(<<"description">>, "")
               /\ c.idle_timeout = E(<<"idle-timeout">>, "")
               /\ c.local_address = E(<<"local-address">>, "")
               /\ c.mtu = E(<<"mtu">>, "1492")
               /\ c.remote_address = E(<<"remote-address">>, "")
               /\ c.service_name = E(<<"service-name">>, "")
               /\ c.source_interface = E(<<"source-interface">>, "")
               /\ c.on_demand = F(<<"connect-on-demand">>)
               /\ c.disable = F(<<"disable">>)
               /\ c.ipv6_autoconf = F(<<"ipv6", "address", "autoconf">>)
               /\ c.ipv6_enable = F(<<"ipv6", "enable">>)
               /\ c.name_server = ~F(<<"no-peer-dns">>)
               /\ (F(<<"access-concentrator">>) =>
                       c.access_concentrator = << store.val[<<"access-concentrator">>] >>)
               /\ (~F(<<"access-concentrator">>) => c.access_concentrator = "")

C14_Witness ==
    /\ pc = "verify"
    /\ store.tree
    /\ <<"mtu">> \notin store.has
    /\ c.mtu = "1492"
    /\ <<"no-peer-dns">> \in store.has
    /\ ~c.name_server
    /\ <<"description">> \in store.has
    /\ c.description = "WAN"

\* C15: in every pass whose snapshot passes verify, stop is called exactly
\* once, with the unit of the snapshot's interface, and before anything else
\* is done to the unit, the peer file or the interface, whether the snapshot
\* is deleted or disabled and whether the unit was running.
C15_StopOnceFirst ==
    /\ (trace # <<>> => trace[1].op = "stop" /\ trace[1].arg = StopCmd(c))
    /\ Count("stop") <= 1
    /\ (Verified /\ raised # "ConfigError" /\ pc # "gen_stop" => Count("stop") = 1)
    /\ (pc = "gen_stop" =>
            svc = svc0 /\ fs = fs0 /\ alias = NoAlias /\ queries = 0)

C15_Witness ==
    /\ Completed
    /\ c.disable
    /\ svc0 = "stopped"
    /\ Count("stop") = 1
    /\ trace[1].op = "stop"

\* C16: once a call of interfaces() returns a set with the interface, the
\* loop is over: if it was the k-th call there have been k calls and k-1
\* sleeps and there are no more, and set_alias is then called exactly once
\* with the snapshot's intf and description.
C16_FoundStopsPoll ==
    /\ (seen =>
            /\ pc \in {"alias", "exit"}
            /\ queries >= 1 /\ queries <= MaxPoll
            /\ sleeps = queries - 1
            /\ cnt = queries - 1)
    /\ (seen /\ pc = "alias" => Count("set_alias") = 0)
    /\ (seen /\ pc = "exit" =>
            /\ Count("set_alias") = 1
            /\ \A i \in At("set_alias") :
                  /\ i = Len(trace)
                  /\ trace[i].arg = <<c.intf, c.description>>)

C16_Witness ==
    /\ pc = "exit"
    /\ seen
    /\ queries = MaxPoll
    /\ sleeps = MaxPoll - 1
    /\ c.description = "WAN"
    /\ alias = [set |-> TRUE, val |-> "WAN"]

\* The loop ended without a call of interfaces() returning the interface
Exhausted ==
    /\ pc \in {"alias", "exit"}
    /\ ~seen
    /\ queries > 0
    /\ ~ListerFailure

\* C17 as stated: every attempt that does not find the interface is followed
\* by one sleep, so a pass in which the interface never appears makes 50
\* attempts and 50 sleeps.
C17_Original ==
    Exhausted => queries = MaxPoll /\ sleeps = MaxPoll

\* C17 as amended: every attempt that does not find the interface increments
\* cnt, and every such attempt but the 50th is followed by one sleep of 250
\* ms; a pass in which the interface never appears makes 50 attempts and 49
\* sleeps (12.25 s) before it gives up.
C17_SleepsOneLessThanAttempts ==
    /\ (pc = "poll" /\ ~seen => queries = cnt /\ sleeps = cnt /\ cnt < MaxPoll)
    /\ (pc = "sleep" => queries = cnt /\ sleeps = cnt - 1 /\ cnt < MaxPoll /\ ~seen)
    /\ (Exhausted =>
            /\ cnt = MaxPoll
            /\ queries = MaxPoll
            /\ sleeps = MaxPoll - 1
            /\ sleeps * SleepMs = 12250)

C17_Witness ==
    /\ pc = "exit"
    /\ Exhausted
    /\ queries = MaxPoll
    /\ sleeps = MaxPoll - 1

\* C18: for a valid snapshot that is not deleted, disable only removes the
\* start: stop is called, the same text is rendered and written, the poll
\* and set_alias run; when stop worked the unit is stopped at the end even
\* if it ran before, and without disable it runs when start worked.
C18_DisableOnlySkipsStart ==
    /\ (pc # "get_config" /\ ~c.deleted =>
            Render(c) = Render([c EXCEPT !.disable = ~c.disable]))
    /\ (Completed /\ ~c.deleted /\ c.disable =>
            /\ Ops = <<"stop", "render", "write", "set_alias">>
            /\ queries >= 1
            /\ fs = [kind |-> "file", text |-> Render(c)]
            /\ svc = (IF trace[1].res = "ok" THEN "stopped" ELSE svc0))
    /\ (Completed /\ ~c.deleted /\ ~c.disable =>
            /\ Ops = <<"stop", "render", "write", "start", "set_alias">>
            /\ queries >= 1
            /\ fs = [kind |-> "file", text |-> Render(c)]
            /\ (trace[4].res = "ok" => svc = "running"))

C18_Witness ==
    /\ Completed
    /\ c.disable
    /\ svc0 = "running"
    /\ svc = "stopped"
    /\ queries = MaxPoll
    /\ Count("set_alias") = 1

\* C19: when VYOS_TAGNODE_VALUE is unset get_config raises nothing, prints a
\* message and returns a snapshot whose intf is the empty string, not a made
\* up name; the pass goes on with that name: the unit stopped is
\* ppp@.service and the path written or unlinked is /etc/ppp/peers/ .
C19_MissingTagGivesEmptyName ==
    /\ (pc # "get_config" /\ ~env.set =>
            /\ c.intf = ""
            /\ out # <<>> /\ out[1] = "Interface not specified"
            /\ (pc = "verify" => raised = "none" /\ exitCode = -1)
            /\ \A i \in At("stop") :
                  trace[i].arg = <<"systemctl stop ppp@", "", ".service">>
            /\ \A i \in Mutations :
                  trace[i].arg = <<"/etc/ppp/peers/", "">>
            /\ (pc = "exit" /\ raised # "ConfigError" => Count("stop") = 1))
    /\ (pc # "get_config" /\ env.set =>
            c.intf = env.val /\ (pc = "verify" => out = <<>>))

C19_Witness ==
    /\ ~env.set
    /\ pc = "exit"
    /\ ~c.deleted
    /\ Ops = <<"stop", "render", "write">>
    /\ trace[3].arg = <<"/etc/ppp/peers/", "">>

\* C20: a pass whose snapshot fails verify calls nothing: no stop, no write
\* or unlink, no start, no poll and no set_alias; the unit and the peer file
\* are as they were before the pass.
C20_FailedVerifyNoEffect ==
    raised = "ConfigError" =>
        /\ pc = "exit"
        /\ trace = <<>>
        /\ svc = svc0
        /\ fs = fs0
        /\ queries = 0
        /\ sleeps = 0
        /\ alias = NoAlias

C20_Witness ==
    /\ raised = "ConfigError"
    /\ svc0 = "running"
    /\ fs0.kind = "file"
    /\ svc = "running"
    /\ fs.text = OldText

====
